---- MODULE Spec2Model ----
(***************************************************************************)
(* Model of the document-to-text extraction pipeline (ocr_processor.py,    *)
(* upload_file in main.py) and of the text structuring / serialization     *)
(* engine (file_converter.py).                                             *)
(*                                                                         *)
(* A Python str is a sequence of one-character strings, so that splitting, *)
(* trimming, quoting and escaping are computed character by character.     *)
(***************************************************************************)
EXTENDS Integers, Sequences, FiniteSets, TLC

\* ------------------------------------------------------------------------
\* Bounds
\* ------------------------------------------------------------------------
MaxPages == 3
MaxRawLen == 2

\* Characters the recognition engine may emit for a page.
OcrAlphabet == {"a", " ", "\n"}

\* ------------------------------------------------------------------------
\* Python str primitives
\* ------------------------------------------------------------------------
\* str.isspace() characters that occur in the alphabets used here.
Whitespace == {" ", "\n", "\r", "\t"}

SeqsUpTo(S, n) == UNION {[1..k -> S] : k \in 0..n}

StartsAt(s, sub, i) ==
  /\ i + Len(sub) - 1 <= Len(s)
  /\ \A k \in 1..Len(sub) : s[i + k - 1] = sub[k]

\* sub in s
Contains(s, sub) == \E i \in 1..Len(s) : StartsAt(s, sub, i)

\* s.strip()
Strip(s) ==
  LET nonws == {i \in 1..Len(s) : s[i] \notin Whitespace}
  IN IF nonws = {} THEN <<>>
     ELSE LET lo == CHOOSE i \in nonws : \A j \in nonws : i <= j
              hi == CHOOSE i \in nonws : \A j \in nonws : i >= j
          IN SubSeq(s, lo, hi)

\* s.split(sep) for a non-empty separator: left to right, non-overlapping.
RECURSIVE SplitFrom(_, _, _, _)
SplitFrom(s, sep, i, cur) ==
  IF i > Len(s) THEN <<cur>>
  ELSE IF StartsAt(s, sep, i)
       THEN <<cur>> \o SplitFrom(s, sep, i + Len(sep), <<>>)
       ELSE SplitFrom(s, sep, i + 1, Append(cur, s[i]))

Split(s, sep) == SplitFrom(s, sep, 1, <<>>)

\* sep.join(parts)
RECURSIVE Join(_, _)
Join(parts, sep) ==
  IF Len(parts) = 0 THEN <<>>
  ELSE IF Len(parts) = 1 THEN parts[1]
  ELSE parts[1] \o sep \o Join(Tail(parts), sep)

\* s.replace(old, new): every non-overlapping occurrence, left to right.
RECURSIVE Replace(_, _, _)
Replace(s, old, new) ==
  IF Len(s) = 0 THEN <<>>
  ELSE IF StartsAt(s, old, 1)
       THEN new \o Replace(SubSeq(s, Len(old) + 1, Len(s)), old, new)
       ELSE <<s[1]>> \o Replace(Tail(s), old, new)

\* s.split(): the maximal runs of non-whitespace characters.
RECURSIVE SplitWsFrom(_, _, _)
SplitWsFrom(s, i, cur) ==
  IF i > Len(s) THEN (IF cur = <<>> THEN <<>> ELSE <<cur>>)
  ELSE IF s[i] \in Whitespace
       THEN (IF cur = <<>> THEN <<>> ELSE <<cur>>) \o SplitWsFrom(s, i + 1, <<>>)
       ELSE SplitWsFrom(s, i + 1, Append(cur, s[i]))

SplitWs(s) == SplitWsFrom(s, 1, <<>>)

\* str(n) for n >= 0
DigitChars == <<"0", "1", "2", "3", "4", "5", "6", "7", "8", "9">>

RECURSIVE IntToStr(_)
IntToStr(n) ==
  IF n < 10 THEN <<DigitChars[n + 1]>>
  ELSE IntToStr(n \div 10) \o <<DigitChars[(n % 10) + 1]>>

\* [p.strip() for p in parts if p.strip()]
StrippedNonEmpty(parts) ==
  LET stripped == [k \in 1..Len(parts) |-> Strip(parts[k])]
  IN SelectSeq(stripped, LAMBDA p : p # <<>>)

\* ------------------------------------------------------------------------
\* ocr_processor.py
\* ------------------------------------------------------------------------
\* while '\n\n\n' in cleaned_text: cleaned_text = cleaned_text.replace(...)
RECURSIVE CollapseNewlines(_)
CollapseNewlines(s) ==
  IF Contains(s, <<"\n", "\n", "\n">>)
  THEN CollapseNewlines(Replace(s, <<"\n", "\n", "\n">>, <<"\n", "\n">>))
  ELSE s

\* (a variant of the next definition: the blank lines are kept)
_clean_text_keepblank(text) ==
  IF Len(text) = 0 THEN <<>>
  ELSE LET lines == Split(text, <<"\n">>)
           cleaned_lines == [k \in 1..Len(lines) |-> Strip(lines[k])]
       IN CollapseNewlines(Join(cleaned_lines, <<"\n">>))

\* OCRProcessor._clean_text
_clean_text(text) ==
  IF Len(text) = 0 THEN <<>>
  ELSE LET lines == Split(text, <<"\n">>)
           cleaned_lines == StrippedNonEmpty(lines)
       IN CollapseNewlines(Join(cleaned_lines, <<"\n">>))

\* f"--- Page {i + 1} ---\n{page_text}" for the 0-based loop index i
PageBlock(i, page_text) ==
  <<"-", "-", "-", " ", "P", "a", "g", "e", " ">> \o IntToStr(i + 1)
    \o <<" ", "-", "-", "-", "\n">> \o page_text

\* (a variant of the next definition: the block put first, as a list kept in completion order could)
AppendBlock_front(texts, block) == <<block>> \o texts

\* extracted_texts.append(block)
AppendBlock(texts, block) == Append(texts, block)

\* (a variant of the next definition: the test inverted)
NoTextExtracted_inverted(extracted_text) == Strip(extracted_text) # <<>>

\* main.py: if not extracted_text.strip()
NoTextExtracted(extracted_text) == Strip(extracted_text) = <<>>

allowed_extensions == {".pdf", ".png", ".jpg", ".jpeg", ".tiff", ".bmp"}
ImageExtensions == {".png", ".jpg", ".jpeg", ".tiff", ".bmp"}

\* Extensions a caller may present (one per branch of process_file).
Extensions == {".pdf", ".png", ".txt"}

RawTexts == SeqsUpTo(OcrAlphabet, MaxRawLen)

VARIABLES
  caller,          \* "upload_file" (main.py) or "direct" (process_file called directly)
  file_ext,        \* file_path.suffix.lower()
  raw_pages,       \* what pytesseract.image_to_string yields for each page
  ocr_pc,          \* position of the request
  images,          \* convert_from_path(...) result: the page indices
  idx,             \* the loop variable i of _process_pdf (0-based)
  extracted_texts, \* _process_pdf's list
  executor,        \* the run_in_executor job: [state, page, result]
  ocr_result,      \* the str process_file returned
  ocr_error,       \* the exception process_file raised
  http             \* upload_file's response

ocr_vars == <<caller, file_ext, raw_pages, ocr_pc, images, idx, extracted_texts,
              executor, ocr_result, ocr_error, http>>

\* The Text Structurer called on a text, and called again on its own
\* paragraphs joined with blank lines.
VARIABLES
  s_text,          \* the text the caller passes to _parse_text_to_structured_data
  s_fault,         \* where that call raises internally ("none": nowhere)
  s_pc,            \* "call", "returned", "restructured"
  structured,      \* the dict the first call returned
  s_fault2,        \* where the second call raises internally
  structured2      \* the dict the second call returned

struct_vars == <<s_text, s_fault, s_pc, structured, s_fault2, structured2>>

\* One convert_to_format request.
VARIABLES
  e_text,          \* the text argument
  e_format,        \* format_type
  e_pc,            \* position of the request
  e_dir,           \* whether output_path.parent exists
  fs,              \* the files of the output directory: path -> [exists, data]
  buf,             \* what the open file object has buffered and not yet flushed
  synced,          \* the paths whose content os.fsync has forced to storage
  trace,           \* the file operations performed so far, in order
  e_error,         \* the step at which the request raised ("none": it did not)
  txt_content,     \* the raw TXT read back
  csv_data,        \* the rows of the CSV
  e_struct         \* the StructuredData the JSON encoder obtained

enc_vars == <<e_text, e_format, e_pc, e_dir, fs, buf, synced, trace, e_error,
              txt_content, csv_data, e_struct>>

\* _clean_text applied to a raw recognition result, then to its own result.
VARIABLES
  c_raw,           \* the text pytesseract returned
  c_pc,            \* "call", "cleaned", "recleaned"
  c_once,          \* _clean_text(c_raw)
  c_twice          \* _clean_text(c_once)

clean_vars == <<c_raw, c_pc, c_once, c_twice>>

vars == <<ocr_vars, struct_vars, enc_vars, clean_vars>>

\* Values of the components a specification does not exercise.
EmptyStructured ==
  [paragraphs |-> <<>>, sentences |-> <<>>, words |-> <<>>, page_count |-> 0]

StructIdle ==
  /\ s_text = <<>>
  /\ s_fault = "none"
  /\ s_pc = "idle"
  /\ structured = EmptyStructured
  /\ s_fault2 = "none"
  /\ structured2 = EmptyStructured

Paths == {"out.json", "out.csv", "out.txt"}
NoFile == [exists |-> FALSE, data |-> <<>>]

EncIdle ==
  /\ e_text = <<>>
  /\ e_format = "none"
  /\ e_pc = "idle"
  /\ e_dir = TRUE
  /\ fs = [p \in Paths |-> NoFile]
  /\ buf = <<>>
  /\ synced = {}
  /\ trace = <<>>
  /\ e_error = "none"
  /\ txt_content = <<>>
  /\ csv_data = <<>>
  /\ e_struct = EmptyStructured

OcrIdle ==
  /\ caller = "none"
  /\ file_ext = ""
  /\ raw_pages = <<>>
  /\ ocr_pc = "idle"
  /\ images = <<>>
  /\ idx = 0
  /\ extracted_texts = <<>>
  /\ executor = [state |-> "idle", page |-> 0, result |-> <<>>]
  /\ ocr_result = <<>>
  /\ ocr_error = "none"
  /\ http = "none"

CleanIdle ==
  /\ c_raw = <<>>
  /\ c_pc = "idle"
  /\ c_once = <<>>
  /\ c_twice = <<>>

IdleExecutor == [state |-> "idle", page |-> 0, result |-> <<>>]

OcrInit ==
  /\ caller \in {"upload_file", "direct"}
  /\ file_ext \in Extensions
  /\ raw_pages \in SeqsUpTo(RawTexts, MaxPages)
  /\ (file_ext # ".pdf" => Len(raw_pages) = 1)
  /\ ocr_pc = IF caller = "upload_file" THEN "upload" ELSE "process_file"
  /\ images = <<>>
  /\ idx = 0
  /\ extracted_texts = <<>>
  /\ executor = IdleExecutor
  /\ ocr_result = <<>>
  /\ ocr_error = "none"
  /\ http = "none"
  /\ StructIdle
  /\ EncIdle
  /\ CleanIdle

\* main.py upload_file, lines 50-58: reject a file type that is not allowed.
UploadValidate ==
  /\ ocr_pc = "upload"
  /\ IF file_ext \notin allowed_extensions
     THEN ocr_pc' = "responded" /\ http' = "400_file_type"
     ELSE ocr_pc' = "process_file" /\ http' = http
  /\ UNCHANGED <<caller, file_ext, raw_pages, images, idx, extracted_texts,
                 executor, ocr_result, ocr_error>>
  /\ UNCHANGED <<struct_vars, enc_vars, clean_vars>>

\* OCRProcessor.process_file: dispatch on the extension.
ProcessFile ==
  /\ ocr_pc = "process_file"
  /\ IF file_ext = ".pdf" THEN ocr_pc' = "pdf_rasterize" /\ ocr_error' = ocr_error
     ELSE IF file_ext \in ImageExtensions
          THEN ocr_pc' = "image_open" /\ ocr_error' = ocr_error
          ELSE ocr_pc' = "raised" /\ ocr_error' = "ValueError_unsupported"
  /\ UNCHANGED <<caller, file_ext, raw_pages, images, idx, extracted_texts,
                 executor, ocr_result, http>>
  /\ UNCHANGED <<struct_vars, enc_vars, clean_vars>>

\* _process_pdf, lines 44-49: rasterize, reject a document without pages.
ConvertFromPath ==
  /\ ocr_pc = "pdf_rasterize"
  /\ images' = [k \in 1..Len(raw_pages) |-> k]
  /\ IF Len(raw_pages) = 0
     THEN ocr_pc' = "raised" /\ ocr_error' = "ValueError_no_pages"
     ELSE ocr_pc' = "pdf_loop" /\ ocr_error' = ocr_error
  /\ idx' = 0
  /\ extracted_texts' = <<>>
  /\ UNCHANGED <<caller, file_ext, raw_pages, executor, ocr_result, http>>
  /\ UNCHANGED <<struct_vars, enc_vars, clean_vars>>

\* _process_pdf line 55 / _extract_text_from_image lines 90-95: hand the page
\* to the thread pool and suspend.
SubmitPage ==
  /\ ocr_pc = "pdf_loop"
  /\ idx < Len(images)
  /\ executor' = [state |-> "queued", page |-> images[idx + 1], result |-> <<>>]
  /\ ocr_pc' = "pdf_await"
  /\ UNCHANGED <<caller, file_ext, raw_pages, images, idx, extracted_texts,
                 ocr_result, ocr_error, http>>
  /\ UNCHANGED <<struct_vars, enc_vars, clean_vars>>

\* _run_tesseract_ocr in the worker thread: recognise and clean, or fail.
RunTesseractOcr ==
  /\ executor.state = "queued"
  /\ \/ executor' = [executor EXCEPT !.state = "done",
                                     !.result = _clean_text(raw_pages[executor.page])]
     \/ executor' = [executor EXCEPT !.state = "failed"]
  /\ UNCHANGED <<caller, file_ext, raw_pages, ocr_pc, images, idx, extracted_texts,
                 ocr_result, ocr_error, http>>
  /\ UNCHANGED <<struct_vars, enc_vars, clean_vars>>

\* _process_pdf lines 55-57: the await returns page_text; keep it if non-blank.
ResumePage ==
  /\ ocr_pc = "pdf_await"
  /\ executor.state = "done"
  /\ LET page_text == executor.result
     IN extracted_texts' = IF Strip(page_text) # <<>>
                           THEN AppendBlock(extracted_texts, PageBlock(idx, page_text))
                           ELSE extracted_texts
  /\ idx' = idx + 1
  /\ executor' = IdleExecutor
  /\ ocr_pc' = "pdf_loop"
  /\ UNCHANGED <<caller, file_ext, raw_pages, images, ocr_result, ocr_error, http>>
  /\ UNCHANGED <<struct_vars, enc_vars, clean_vars>>

\* _process_pdf line 59: return "\n\n".join(extracted_texts)
JoinPages ==
  /\ ocr_pc = "pdf_loop"
  /\ idx >= Len(images)
  /\ ocr_result' = Join(extracted_texts, <<"\n", "\n">>)
  /\ ocr_pc' = "returned"
  /\ UNCHANGED <<caller, file_ext, raw_pages, images, idx, extracted_texts,
                 executor, ocr_error, http>>
  /\ UNCHANGED <<struct_vars, enc_vars, clean_vars>>

\* _process_image lines 73-78: open the image and hand it to the thread pool.
SubmitImage ==
  /\ ocr_pc = "image_open"
  /\ executor' = [state |-> "queued", page |-> 1, result |-> <<>>]
  /\ ocr_pc' = "image_await"
  /\ UNCHANGED <<caller, file_ext, raw_pages, images, idx, extracted_texts,
                 ocr_result, ocr_error, http>>
  /\ UNCHANGED <<struct_vars, enc_vars, clean_vars>>

\* _process_image line 78: return the page's text as it is.
ResumeImage ==
  /\ ocr_pc = "image_await"
  /\ executor.state = "done"
  /\ ocr_result' = executor.result
  /\ executor' = IdleExecutor
  /\ ocr_pc' = "returned"
  /\ UNCHANGED <<caller, file_ext, raw_pages, images, idx, extracted_texts,
                 ocr_error, http>>
  /\ UNCHANGED <<struct_vars, enc_vars, clean_vars>>

\* The except/raise chain of lines 98-100, 61-63 and 80-82.
PropagateOcrFailure ==
  /\ ocr_pc \in {"pdf_await", "image_await"}
  /\ executor.state = "failed"
  /\ executor' = IdleExecutor
  /\ ocr_error' = "RecognitionFailure"
  /\ ocr_pc' = "raised"
  /\ UNCHANGED <<caller, file_ext, raw_pages, images, idx, extracted_texts,
                 ocr_result, http>>
  /\ UNCHANGED <<struct_vars, enc_vars, clean_vars>>

\* main.py lines 82-86: no text -> HTTP 400; otherwise go on to the conversion.
UploadCheckText ==
  /\ ocr_pc = "returned"
  /\ caller = "upload_file"
  /\ IF NoTextExtracted(ocr_result)
     THEN ocr_pc' = "responded" /\ http' = "400_no_text"
     ELSE ocr_pc' = "convert" /\ http' = http
  /\ UNCHANGED <<caller, file_ext, raw_pages, images, idx, extracted_texts,
                 executor, ocr_result, ocr_error>>
  /\ UNCHANGED <<struct_vars, enc_vars, clean_vars>>

\* main.py lines 130-132: any other exception becomes HTTP 500.
UploadInternalError ==
  /\ ocr_pc = "raised"
  /\ caller = "upload_file"
  /\ ocr_pc' = "responded"
  /\ http' = "500"
  /\ UNCHANGED <<caller, file_ext, raw_pages, images, idx, extracted_texts,
                 executor, ocr_result, ocr_error>>
  /\ UNCHANGED <<struct_vars, enc_vars, clean_vars>>

OcrNext ==
  \/ UploadValidate
  \/ ProcessFile
  \/ ConvertFromPath
  \/ SubmitPage
  \/ RunTesseractOcr
  \/ ResumePage
  \/ JoinPages
  \/ SubmitImage
  \/ ResumeImage
  \/ PropagateOcrFailure
  \/ UploadCheckText
  \/ UploadInternalError

SpecOCR == OcrInit /\ [][OcrNext]_vars

\* ------------------------------------------------------------------------
\* _clean_text on its own: any raw text, cleaned and cleaned again
\* ------------------------------------------------------------------------
MaxCleanLen == 5

\* letters, blank, LF, and CR (which str.strip removes but split('\n') does
\* not cut at)
CleanAlphabet == {"a", "b", " ", "\n", "\r"}

CleanTexts == SeqsUpTo(CleanAlphabet, MaxCleanLen)

CleanInit ==
  /\ c_raw \in CleanTexts
  /\ c_pc = "call"
  /\ c_once = <<>>
  /\ c_twice = <<>>
  /\ OcrIdle
  /\ StructIdle
  /\ EncIdle

\* _run_tesseract_ocr line 115: return self._clean_text(text)
CleanText ==
  /\ c_pc = "call"
  /\ c_once' = _clean_text(c_raw)
  /\ c_pc' = "cleaned"
  /\ UNCHANGED <<c_raw, c_twice>>
  /\ UNCHANGED <<ocr_vars, struct_vars, enc_vars>>

\* _clean_text called on a text it returned
CleanTextAgain ==
  /\ c_pc = "cleaned"
  /\ c_twice' = _clean_text(c_once)
  /\ c_pc' = "recleaned"
  /\ UNCHANGED <<c_raw, c_once>>
  /\ UNCHANGED <<ocr_vars, struct_vars, enc_vars>>

CleanNext == CleanText \/ CleanTextAgain

SpecClean == CleanInit /\ [][CleanNext]_vars

\* ------------------------------------------------------------------------
\* Reading a DocumentText back: the page numbers of its markers, in the order
\* the markers occur.
\* ------------------------------------------------------------------------
MarkerPrefix == <<"-", "-", "-", " ", "P", "a", "g", "e", " ">>
MarkerSuffix == <<" ", "-", "-", "-">>

IsDigit(c) == \E d \in 1..10 : DigitChars[d] = c
DigitValue(c) == (CHOOSE d \in 1..10 : DigitChars[d] = c) - 1

RECURSIVE StrToInt(_)
StrToInt(digits) ==
  IF Len(digits) = 0 THEN 0
  ELSE 10 * StrToInt(SubSeq(digits, 1, Len(digits) - 1))
       + DigitValue(digits[Len(digits)])

\* the end of the run of digits that starts at position i
RECURSIVE DigitsEnd(_, _)
DigitsEnd(s, i) ==
  IF i <= Len(s) /\ IsDigit(s[i]) THEN DigitsEnd(s, i + 1) ELSE i

MarkerAt(s, i) ==
  /\ StartsAt(s, MarkerPrefix, i)
  /\ DigitsEnd(s, i + Len(MarkerPrefix)) > i + Len(MarkerPrefix)
  /\ StartsAt(s, MarkerSuffix, DigitsEnd(s, i + Len(MarkerPrefix)))

RECURSIVE MarkerNumbersFrom(_, _)
MarkerNumbersFrom(s, i) ==
  IF i > Len(s) THEN <<>>
  ELSE IF MarkerAt(s, i)
       THEN <<StrToInt(SubSeq(s, i + Len(MarkerPrefix),
                              DigitsEnd(s, i + Len(MarkerPrefix)) - 1))>>
            \o MarkerNumbersFrom(s, i + 1)
       ELSE MarkerNumbersFrom(s, i + 1)

MarkerNumbers(s) == MarkerNumbersFrom(s, 1)

\* A page is blank when recognition saw nothing but whitespace on it.
BlankPage(raw) == \A k \in 1..Len(raw) : raw[k] \in Whitespace
AllBlank == \A k \in 1..Len(raw_pages) : BlankPage(raw_pages[k])
NonBlankIndices ==
  SelectSeq([k \in 1..Len(raw_pages) |-> k], LAMBDA k : ~BlankPage(raw_pages[k]))

\* process_file has returned a str (the caller may have moved on since).
ProcessFileReturned ==
  \/ ocr_pc \in {"returned", "convert"}
  \/ ocr_pc = "responded" /\ http = "400_no_text"

\* C1: for a PDF with at least one non-blank page, the returned DocumentText
\* carries exactly one '--- Page n ---' marker per non-blank page and none for a
\* blank page, numbered with the pages' 1-based indices in strictly increasing
\* order; the page in the thread pool is always the page the loop index names,
\* so completion order cannot differ from page order.
C1_MarkersAscending ==
  /\ (executor.state # "idle" /\ file_ext = ".pdf" => executor.page = idx + 1)
  /\ (ProcessFileReturned /\ file_ext = ".pdf" /\ ~AllBlank) =>
       /\ MarkerNumbers(ocr_result) = NonBlankIndices
       /\ \A a, b \in 1..Len(MarkerNumbers(ocr_result)) :
            a < b => MarkerNumbers(ocr_result)[a] < MarkerNumbers(ocr_result)[b]

\* A returned PDF text whose second page was blank and skipped between two
\* non-blank pages.
C1_Witness ==
  /\ ProcessFileReturned /\ file_ext = ".pdf"
  /\ Len(raw_pages) = 3
  /\ NonBlankIndices = <<1, 3>>
  /\ MarkerNumbers(ocr_result) = <<1, 3>>

\* C2 as stated: when every page is blank, process_file fails instead of
\* returning a DocumentText.
C2_ProcessFileFailsOnBlank ==
  (AllBlank /\ Len(raw_pages) >= 1) => ~ProcessFileReturned

\* C2 amended: when every page is blank, process_file does not fail on that
\* account: it returns the empty string, and it is upload_file that rejects the
\* request with the HTTP 400 "no text" response and starts no conversion.
C2_UploadRejectsBlank ==
  (AllBlank /\ Len(raw_pages) >= 1) =>
    /\ (ProcessFileReturned => ocr_result = <<>>)
    /\ ocr_error \in {"none", "RecognitionFailure", "ValueError_unsupported"}
    /\ ocr_pc # "convert"
    /\ (ocr_pc = "responded" /\ ocr_error = "none" /\ file_ext \in allowed_extensions
          => http = "400_no_text")

\* A two-page PDF of blank pages that upload_file answered with 400.
C2_Witness ==
  /\ AllBlank /\ Len(raw_pages) = 2 /\ file_ext = ".pdf"
  /\ ocr_result = <<>> /\ http = "400_no_text"

\* ------------------------------------------------------------------------
\* file_converter.py: the Text Structurer
\* ------------------------------------------------------------------------
MaxTextLen == 5

\* Characters of the texts handed to the Structurer.
StructAlphabet == {"a", " ", ".", "?", "\n", "\r"}

CR == <<"\r">>
LF == <<"\n">>
CRLF == <<"\r", "\n">>
BlankLine == <<"\n", "\n">>

\* lines 290-293: if "\r\n" in text: ... elif "\r" in text: ...
NormalizeNewlines(text) ==
  IF Contains(text, CRLF) THEN Replace(text, CRLF, LF)
  ELSE IF Contains(text, CR) THEN Replace(text, CR, LF)
  ELSE text

\* (a variant of the next definition: cut at every line ending instead of at blank lines)
Paragraphs_everyline(text) == StrippedNonEmpty(Split(text, LF))

\* line 296: [p.strip() for p in text.split('\n\n') if p.strip()]
Paragraphs(text) == StrippedNonEmpty(Split(text, BlankLine))

\* the character class [.!?]
Terminators == {".", "!", "?"}

\* the end of the run of terminators that starts at position i
RECURSIVE RunEnd(_, _)
RunEnd(s, i) ==
  IF i <= Len(s) /\ s[i] \in Terminators THEN RunEnd(s, i + 1) ELSE i

\* line 302: re.split(r'[.!?]+', paragraph)
RECURSIVE ReSplitFrom(_, _, _)
ReSplitFrom(s, i, cur) ==
  IF i > Len(s) THEN <<cur>>
  ELSE IF s[i] \in Terminators
       THEN <<cur>> \o ReSplitFrom(s, RunEnd(s, i), <<>>)
       ELSE ReSplitFrom(s, i + 1, Append(cur, s[i]))

ReSplit(paragraph) == ReSplitFrom(paragraph, 1, <<>>)

\* lines 299-303: the loop that extends sentences paragraph by paragraph
RECURSIVE Sentences(_)
Sentences(paragraphs) ==
  IF Len(paragraphs) = 0 THEN <<>>
  ELSE StrippedNonEmpty(ReSplit(Head(paragraphs))) \o Sentences(Tail(paragraphs))

\* text.count(sub): non-overlapping occurrences
Count(text, sub) == Len(Split(text, sub)) - 1

PageLiteral == <<"-", "-", "-", " ", "P", "a", "g", "e">>

\* (a variant of the next definition: the markers counted, nothing added)
PageCount_markers(text) ==
  IF Contains(text, PageLiteral) THEN Count(text, PageLiteral) ELSE 1

\* line 309
PageCount(text) ==
  IF Contains(text, PageLiteral) THEN Count(text, PageLiteral) + 1 ELSE 1

\* lines 318-325: the except branch, with the value text has when it runs
Degenerate(text) ==
  [paragraphs |-> <<text>>, sentences |-> <<text>>, words |-> SplitWs(text),
   page_count |-> 1]

\* Where an internal fault can strike: nowhere, in the newline normalization
\* (text is still the argument), or in the splitting that follows it (text has
\* been rebound to the normalized string).
FaultPoints == {"none", "normalize", "split"}

\* FileConverter._parse_text_to_structured_data
_parse_text_to_structured_data(text, fault) ==
  IF fault = "normalize" THEN Degenerate(text)
  ELSE LET norm == NormalizeNewlines(text)
       IN IF fault = "split" THEN Degenerate(norm)
          ELSE [paragraphs |-> Paragraphs(norm),
                sentences |-> Sentences(Paragraphs(norm)),
                words |-> SplitWs(norm),
                page_count |-> PageCount(norm)]

\* "Hello world. Foo bar!\n\nNext para? Yes."
ExampleText ==
  <<"H", "e", "l", "l", "o", " ", "w", "o", "r", "l", "d", ".", " ", "F",
    "o", "o", " ", "b", "a", "r", "!", "\n", "\n", "N", "e", "x", "t",
    " ", "p", "a", "r", "a", "?", " ", "Y", "e", "s", ".">>

StructTexts == SeqsUpTo(StructAlphabet, MaxTextLen) \cup {ExampleText}

StructInit ==
  /\ s_text \in StructTexts
  /\ s_fault \in FaultPoints
  /\ s_pc = "call"
  /\ structured = EmptyStructured
  /\ s_fault2 = "none"
  /\ structured2 = EmptyStructured
  /\ OcrIdle
  /\ EncIdle
  /\ CleanIdle

\* A caller structures s_text.
Structure ==
  /\ s_pc = "call"
  /\ structured' = _parse_text_to_structured_data(s_text, s_fault)
  /\ s_pc' = "returned"
  /\ UNCHANGED <<s_text, s_fault, s_fault2, structured2>>
  /\ UNCHANGED <<ocr_vars, enc_vars, clean_vars>>

\* The caller joins the paragraphs with blank lines and structures the result.
Restructure ==
  /\ s_pc = "returned"
  /\ \E f \in FaultPoints :
       /\ s_fault2' = f
       /\ structured2' =
            _parse_text_to_structured_data(Join(structured.paragraphs, BlankLine), f)
  /\ s_pc' = "restructured"
  /\ UNCHANGED <<s_text, s_fault, structured>>
  /\ UNCHANGED <<ocr_vars, enc_vars, clean_vars>>

StructNext == Structure \/ Restructure

SpecStruct == StructInit /\ [][StructNext]_vars

\* ------------------------------------------------------------------------
\* What "blocks between blank lines" and "pieces between runs of terminators"
\* mean, stated on positions of the text and not by splitting it.
\* ------------------------------------------------------------------------
AllWhitespace(s, lo, hi) == \A k \in lo..hi : s[k] \in Whitespace

Trimmed(s) == Len(s) > 0 /\ s[1] \notin Whitespace /\ s[Len(s)] \notin Whitespace

\* P lists, in order, trimmed non-empty stretches of text without a blank line
\* inside; all that lies before, between and after them is whitespace, and
\* between two consecutive stretches there is a blank line.
IsParagraphPartition(text, P) ==
  IF Len(P) = 0 THEN AllWhitespace(text, 1, Len(text))
  ELSE \E st \in [1..Len(P) -> 1..Len(text)] :
         LET en(k) == st[k] + Len(P[k]) - 1
         IN /\ \A k \in 1..Len(P) :
                 /\ Trimmed(P[k])
                 /\ ~Contains(P[k], BlankLine)
                 /\ StartsAt(text, P[k], st[k])
            /\ AllWhitespace(text, 1, st[1] - 1)
            /\ AllWhitespace(text, en(Len(P)) + 1, Len(text))
            /\ \A k \in 1..(Len(P) - 1) :
                 /\ st[k + 1] > en(k)
                 /\ AllWhitespace(text, en(k) + 1, st[k + 1] - 1)
                 /\ Contains(SubSeq(text, en(k) + 1, st[k + 1] - 1), BlankLine)

\* S lists, in order, trimmed non-empty stretches of paragraph p without a
\* terminator inside; all that lies before, between and after them is
\* whitespace or terminators, with a terminator between consecutive stretches.
IsSentenceSplit(p, S) ==
  LET Gap(lo, hi) == \A k \in lo..hi : p[k] \in Whitespace \cup Terminators
  IN IF Len(S) = 0 THEN Gap(1, Len(p))
     ELSE \E st \in [1..Len(S) -> 1..Len(p)] :
            LET en(k) == st[k] + Len(S[k]) - 1
            IN /\ \A k \in 1..Len(S) :
                    /\ Trimmed(S[k])
                    /\ \A j \in 1..Len(S[k]) : S[k][j] \notin Terminators
                    /\ StartsAt(p, S[k], st[k])
               /\ Gap(1, st[1] - 1)
               /\ Gap(en(Len(S)) + 1, Len(p))
               /\ \A k \in 1..(Len(S) - 1) :
                    /\ st[k + 1] > en(k)
                    /\ Gap(en(k) + 1, st[k + 1] - 1)
                    /\ \E j \in (en(k) + 1)..(st[k + 1] - 1) : p[j] \in Terminators

\* S is the concatenation, in paragraph order, of the sentence splits of the
\* paragraphs of P.
IsFlatSentenceList(P, S) ==
  \E cut \in [1..(Len(P) + 1) -> 0..Len(S)] :
    /\ cut[1] = 0
    /\ cut[Len(P) + 1] = Len(S)
    /\ \A k \in 1..Len(P) :
         /\ cut[k] <= cut[k + 1]
         /\ IsSentenceSplit(P[k], SubSeq(S, cut[k] + 1, cut[k + 1]))

ExampleParagraphs ==
  <<<<"H", "e", "l", "l", "o", " ", "w", "o", "r", "l", "d", ".", " ", "F", "o", "o", " ", "b", "a", "r", "!">>,
    <<"N", "e", "x", "t", " ", "p", "a", "r", "a", "?", " ", "Y", "e", "s", ".">>>>

ExampleSentences ==
  <<<<"H", "e", "l", "l", "o", " ", "w", "o", "r", "l", "d">>,
    <<"F", "o", "o", " ", "b", "a", "r">>,
    <<"N", "e", "x", "t", " ", "p", "a", "r", "a">>,
    <<"Y", "e", "s">>>>

StructureReturned == s_pc \in {"returned", "restructured"}

\* C7 as stated: structuring the paragraphs joined with blank lines gives the
\* same paragraphs again, for every text, mixed line endings included.
C7_ParagraphsIdempotent ==
  (s_pc = "restructured" /\ s_fault = "none" /\ s_fault2 = "none") =>
    structured2.paragraphs = structured.paragraphs

\* C8: when no fault strikes, the paragraphs are the blocks between the blank
\* lines of the text the Structurer splits (its newline-normalized text),
\* trimmed, non-empty and in order; the sentences are, paragraph by paragraph,
\* the pieces between runs of '.', '!' or '?', trimmed, non-empty and in order,
\* so no sentence contains a terminator; and the documented example gives the
\* documented lists.
C8_ParagraphsAndSentences ==
  (StructureReturned /\ s_fault = "none") =>
    /\ IsParagraphPartition(NormalizeNewlines(s_text), structured.paragraphs)
    /\ IsFlatSentenceList(structured.paragraphs, structured.sentences)
    /\ \A k \in 1..Len(structured.sentences) :
         \A j \in 1..Len(structured.sentences[k]) :
           structured.sentences[k][j] \notin Terminators
    /\ (s_text = ExampleText =>
          /\ structured.paragraphs = ExampleParagraphs
          /\ structured.sentences = ExampleSentences)

\* The documented example has been structured into two paragraphs and four
\* sentences.
C8_Witness ==
  /\ StructureReturned /\ s_fault = "none" /\ s_text = ExampleText
  /\ Len(structured.paragraphs) = 2
  /\ Len(structured.sentences) = 4

\* C9 as stated: when parsing raises, the result is the degenerate
\* StructuredData built from the text the caller passed in.
C9_DegenerateOfCallerText ==
  (StructureReturned /\ s_fault # "none") =>
    structured = [paragraphs |-> <<s_text>>, sentences |-> <<s_text>>,
                  words |-> SplitWs(s_text), page_count |-> 1]

\* ------------------------------------------------------------------------
\* file_converter.py: the Format Encoders
\* ------------------------------------------------------------------------
MaxEncLen == 3

\* Characters of the texts handed to convert_to_format: a letter, whitespace,
\* both line-ending characters, and the characters CSV and JSON must quote.
EncAlphabet == {"a", " ", "\n", "\r", "\"", ",", "\\"}

\* What open(..., 'r') hands back for the stored characters: universal
\* newlines turn "\r\n" and a lone "\r" into "\n".  (On write, "\n" is stored
\* as os.linesep, which is "\n" on the POSIX hosts modelled here.)
RECURSIVE ReadTextMode(_)
ReadTextMode(data) ==
  IF Len(data) = 0 THEN <<>>
  ELSE IF StartsAt(data, CRLF, 1) THEN LF \o ReadTextMode(SubSeq(data, 3, Len(data)))
  ELSE IF data[1] = "\r" THEN LF \o ReadTextMode(Tail(data))
  ELSE <<data[1]>> \o ReadTextMode(Tail(data))

\* str.splitlines(): a line ends at "\r\n", "\n" or "\r"; no empty last line.
RECURSIVE SplitLinesFrom(_, _, _)
SplitLinesFrom(s, i, cur) ==
  IF i > Len(s) THEN (IF cur = <<>> THEN <<>> ELSE <<cur>>)
  ELSE IF StartsAt(s, CRLF, i) THEN <<cur>> \o SplitLinesFrom(s, i + 2, <<>>)
  ELSE IF s[i] \in {"\n", "\r"} THEN <<cur>> \o SplitLinesFrom(s, i + 1, <<>>)
  ELSE SplitLinesFrom(s, i + 1, Append(cur, s[i]))

SplitLines(s) == SplitLinesFrom(s, 1, <<>>)

\* (a variant of the next definition: enumerate(lines) without the start argument)
LineNumber_fromzero(k) == k - 1

\* enumerate(lines, 1): the number of the k-th line
LineNumber(k) == k

HeaderRow ==
  << <<"L", "i", "n", "e", " ", "N", "u", "m", "b", "e", "r">>,
     <<"L", "i", "n", "e", " ", "T", "e", "x", "t">> >>

\* lines 203-209: the rows of the line-based CSV.  The line number is kept as
\* the string csv.writer and str(cell) make of it.
CsvRows(text) ==
  LET lines == SplitLines(text)
  IN <<HeaderRow>>
     \o [k \in 1..Len(lines) |-> <<IntToStr(LineNumber(k)), lines[k]>>]
     \o (IF Len(lines) = 0 THEN << <<IntToStr(1), text>> >> ELSE <<>>)

\* The byte-order mark that the utf-8-sig codec puts first.
BOM == <<"BOM">>

Quote == <<"\"">>

\* csv.writer(dialect='excel', quoting=QUOTE_ALL): a field between quotes, its
\* quotes doubled
RECURSIVE QuoteField(_)
QuoteField(field) ==
  IF Len(field) = 0 THEN <<>>
  ELSE (IF field[1] = "\"" THEN <<"\"", "\"">> ELSE <<field[1]>>)
       \o QuoteField(Tail(field))

WriterRow(row) ==
  Join([k \in 1..Len(row) |-> Quote \o QuoteField(row[k]) \o Quote], <<",">>)
    \o CRLF

\* writer.writerows(csv_data), lines 214-220
RECURSIVE WriterRows(_)
WriterRows(rows) ==
  IF Len(rows) = 0 THEN <<>> ELSE WriterRow(Head(rows)) \o WriterRows(Tail(rows))

\* lines 227-230: the csv_string of the rewrite
RECURSIVE CsvString(_)
CsvString(rows) ==
  IF Len(rows) = 0 THEN <<>>
  ELSE LET row == Head(rows)
           escaped_cells ==
             [k \in 1..Len(row) |-> Replace(row[k], Quote, <<"\"", "\"">>)]
       IN Quote \o Join(escaped_cells, <<"\"", ",", "\"">>) \o Quote \o CRLF
          \o CsvString(Tail(rows))

\* ------------------------------------------------------------------------
\* json.dumps(json_data, indent=2, ensure_ascii=False)
\* ------------------------------------------------------------------------
\* a string between quotes with ", \ and the control characters escaped
RECURSIVE JsonEscape(_)
JsonEscape(str) ==
  IF Len(str) = 0 THEN <<>>
  ELSE (CASE str[1] = "\"" -> <<"\\", "\"">>
          [] str[1] = "\\" -> <<"\\", "\\">>
          [] str[1] = "\n" -> <<"\\", "n">>
          [] str[1] = "\r" -> <<"\\", "r">>
          [] str[1] = "\t" -> <<"\\", "t">>
          [] OTHER -> <<str[1]>>)
       \o JsonEscape(Tail(str))

JsonString(str) == Quote \o JsonEscape(str) \o Quote

Indent(n) == [k \in 1..n |-> " "]

\* a list of strings at nesting depth d (indentation 2 * d)
JsonStringList(list, d) ==
  IF Len(list) = 0 THEN <<"[", "]">>
  ELSE <<"[">> \o LF \o Indent(2 * (d + 1))
       \o Join([k \in 1..Len(list) |-> JsonString(list[k])],
               <<",">> \o LF \o Indent(2 * (d + 1)))
       \o LF \o Indent(2 * d) \o <<"]">>

\* "key": value
JsonMember(key, value) == JsonString(key) \o <<":", " ">> \o value

\* an object at nesting depth d from its rendered members
JsonObject(members, d) ==
  <<"{">> \o LF \o Indent(2 * (d + 1))
  \o Join(members, <<",">> \o LF \o Indent(2 * (d + 1)))
  \o LF \o Indent(2 * d) \o <<"}">>

K_document_info == <<"d", "o", "c", "u", "m", "e", "n", "t", "_", "i", "n", "f", "o">>
K_total_pages == <<"t", "o", "t", "a", "l", "_", "p", "a", "g", "e", "s">>
K_total_paragraphs ==
  <<"t", "o", "t", "a", "l", "_", "p", "a", "r", "a", "g", "r", "a", "p", "h", "s">>
K_total_words == <<"t", "o", "t", "a", "l", "_", "w", "o", "r", "d", "s">>
K_total_characters ==
  <<"t", "o", "t", "a", "l", "_", "c", "h", "a", "r", "a", "c", "t", "e", "r", "s">>
K_content == <<"c", "o", "n", "t", "e", "n", "t">>
K_full_text == <<"f", "u", "l", "l", "_", "t", "e", "x", "t">>
K_paragraphs == <<"p", "a", "r", "a", "g", "r", "a", "p", "h", "s">>
K_sentences == <<"s", "e", "n", "t", "e", "n", "c", "e", "s">>
K_words == <<"w", "o", "r", "d", "s">>
K_metadata == <<"m", "e", "t", "a", "d", "a", "t", "a">>
K_extraction_method ==
  <<"e", "x", "t", "r", "a", "c", "t", "i", "o", "n", "_", "m", "e", "t", "h", "o", "d">>
K_format == <<"f", "o", "r", "m", "a", "t">>

\* (a variant of the next definition: off by one)
TotalWords_pertoken(text) == Len(SplitWs(text)) + 1

\* lines 70-87: total_words counts the tokens of the raw text
TotalWords(text) == Len(SplitWs(text))

\* lines 70-91: the JSON document written for text and its StructuredData
JsonDocument(text, sd) ==
  JsonObject(<<
    JsonMember(K_document_info, JsonObject(<<
      JsonMember(K_total_pages, IntToStr(sd.page_count)),
      JsonMember(K_total_paragraphs, IntToStr(Len(sd.paragraphs))),
      JsonMember(K_total_words, IntToStr(TotalWords(text))),
      JsonMember(K_total_characters, IntToStr(Len(text))) >>, 1)),
    JsonMember(K_content, JsonObject(<<
      JsonMember(K_full_text, JsonString(text)),
      JsonMember(K_paragraphs, JsonStringList(sd.paragraphs, 2)),
      JsonMember(K_sentences, JsonStringList(sd.sentences, 2)),
      JsonMember(K_words, JsonStringList(sd.words, 2)) >>, 1)),
    JsonMember(K_metadata, JsonObject(<<
      JsonMember(K_extraction_method, JsonString(<<"O", "C", "R">>)),
      JsonMember(K_format, JsonString(<<"j", "s", "o", "n">>)) >>, 1)) >>, 0)

\* ------------------------------------------------------------------------
\* _format_text_for_txt
\* ------------------------------------------------------------------------
Repeat(c, n) == [k \in 1..n |-> c]

BannerWidth == 50

TxtHeader ==
  Repeat("=", BannerWidth) \o LF
  \o
  <<"E", "X", "T", "R", "A", "C", "T", "E", "D", " ", "D", "O", "C", "U",
    "M", "E", "N", "T", " ", "T", "E", "X", "T">>
  \o LF \o Repeat("=", BannerWidth) \o LF \o LF

TxtStatistics(text) ==
  <<"D", "o", "c", "u", "m", "e", "n", "t", " ", "S", "t", "a", "t", "i",
    "s", "t", "i", "c", "s", ":">>
  \o LF
  \o
  <<"-", " ", "T", "o", "t", "a", "l", " ", "W", "o", "r", "d", "s", ":",
    " ">>
  \o IntToStr(Len(SplitWs(text))) \o LF
  \o
  <<"-", " ", "T", "o", "t", "a", "l", " ", "P", "a", "r", "a", "g", "r",
    "a", "p", "h", "s", ":", " ">>
  \o IntToStr(Len(StrippedNonEmpty(Split(text, BlankLine)))) \o LF
  \o
  <<"-", " ", "T", "o", "t", "a", "l", " ", "C", "h", "a", "r", "a", "c",
    "t", "e", "r", "s", ":", " ">>
  \o IntToStr(Len(text)) \o LF \o LF

TxtContentBanner ==
  Repeat("-", BannerWidth) \o LF
  \o
  <<"D", "O", "C", "U", "M", "E", "N", "T", " ", "C", "O", "N", "T", "E",
    "N", "T">>
  \o LF \o Repeat("-", BannerWidth) \o LF \o LF

TxtFooter ==
  LF \o LF \o Repeat("=", BannerWidth) \o LF
  \o
  <<"E", "n", "d", " ", "o", "f", " ", "D", "o", "c", "u", "m", "e", "n",
    "t">>
  \o LF \o Repeat("=", BannerWidth) \o LF

\* FileConverter._format_text_for_txt; on an internal fault the except branch
\* (lines 360-362) returns the text as it is.
_format_text_for_txt(text, fault) ==
  IF fault THEN text
  ELSE TxtHeader \o TxtStatistics(text) \o TxtContentBanner \o text \o TxtFooter

\* ------------------------------------------------------------------------
\* convert_to_format and the three encoders
\* ------------------------------------------------------------------------
\* "a\nb\n\nc"
ExampleCsvText == <<"a", "\n", "b", "\n", "\n", "c">>

EncTexts == SeqsUpTo(EncAlphabet, MaxEncLen) \cup {ExampleCsvText}

Formats == {"json", "csv", "txt", "xml"}

\* output_path as the caller names it for the format, and
\* output_path.with_suffix('.txt')
OutputPath(format) ==
  CASE format = "json" -> "out.json"
    [] format = "csv" -> "out.csv"
    [] OTHER -> "out.txt"

\* (a variant of the next definition: the raw text goes to output_path itself)
TxtPath_csv == "out.csv"

\* line 42: txt_path = output_path.with_suffix('.txt'), for a CSV request
TxtPath == "out.txt"

Event(op, size, bytes) == [op |-> op, size |-> size, bytes |-> bytes]

Ops(tr) == [k \in 1..Len(tr) |-> tr[k].op]

\* (a variant of the next definition: the comparison inverted)
NeedsRewrite_nonempty(file) == file.exists /\ Len(file.data) # 0

\* line 225: output_path.exists() and output_path.stat().st_size == 0
NeedsRewrite(file) == file.exists /\ Len(file.data) = 0

EncInit ==
  /\ e_text \in EncTexts
  /\ e_format \in Formats
  /\ e_pc = "start"
  /\ e_dir \in BOOLEAN
  /\ fs = [p \in Paths |-> NoFile]
  /\ buf = <<>>
  /\ synced = {}
  /\ trace = <<>>
  /\ e_error = "none"
  /\ txt_content = <<>>
  /\ csv_data = <<>>
  /\ e_struct = EmptyStructured
  /\ OcrIdle
  /\ StructIdle
  /\ CleanIdle

\* convert_to_format lines 38-51: dispatch on format_type
Dispatch ==
  /\ e_pc = "start"
  /\ IF e_format = "json" THEN e_pc' = "json" /\ e_error' = e_error
     ELSE IF e_format = "csv" THEN e_pc' = "csv_raw_txt" /\ e_error' = e_error
     ELSE IF e_format = "txt" THEN e_pc' = "txt" /\ e_error' = e_error
     ELSE e_pc' = "raised" /\ e_error' = "unsupported_format"
  /\ UNCHANGED <<e_text, e_format, e_dir, fs, buf, synced, trace, txt_content,
                 csv_data, e_struct>>
  /\ UNCHANGED <<ocr_vars, struct_vars, clean_vars>>

\* _convert_to_json: structure the text, open the file, serialize and write.
\* There is no mkdir here: open() raises when the directory is absent (or for
\* another reason); json.dumps and f.write run inside the with block, so a
\* fault there raises after the file was created empty.
JsonEncode ==
  /\ e_pc = "json"
  /\ \E f \in FaultPoints :
       LET sd == _parse_text_to_structured_data(e_text, f)
       IN /\ e_struct' = sd
          /\ \/ /\ e_dir
                /\ fs' = [fs EXCEPT !["out.json"] =
                            [exists |-> TRUE, data |-> JsonDocument(e_text, sd)]]
                /\ trace' = Append(trace, Event("json_write", 0, JsonDocument(e_text, sd)))
                /\ e_pc' = "returned"
                /\ e_error' = e_error
             \/ /\ fs' = fs
                /\ trace' = Append(trace, Event("json_write", 0, <<>>))
                /\ e_pc' = "raised"
                /\ e_error' = IF e_dir THEN "json_open" ELSE "json_no_directory"
             \/ /\ e_dir
                /\ fs' = [fs EXCEPT !["out.json"] = [exists |-> TRUE, data |-> <<>>]]
                /\ trace' = Append(trace, Event("json_write", 0, <<>>))
                /\ e_pc' = "raised"
                /\ e_error' = "json_write"
  /\ UNCHANGED <<e_text, e_format, e_dir, buf, synced, txt_content, csv_data>>
  /\ UNCHANGED <<ocr_vars, struct_vars, clean_vars>>

\* _convert_to_txt: format the text (a fault there is swallowed by
\* _format_text_for_txt), open the file and write.  There is no mkdir here:
\* open() raises when the directory is absent; a failing write raises after
\* the file was created empty.
TxtEncode ==
  /\ e_pc = "txt"
  /\ \E fault \in BOOLEAN :
       LET formatted_text == _format_text_for_txt(e_text, fault)
       IN \/ /\ e_dir
             /\ fs' = [fs EXCEPT !["out.txt"] = [exists |-> TRUE, data |-> formatted_text]]
             /\ trace' = Append(trace, Event("txt_write", 0, formatted_text))
             /\ e_pc' = "returned"
             /\ e_error' = e_error
          \/ /\ fs' = fs
             /\ trace' = Append(trace, Event("txt_write", 0, <<>>))
             /\ e_pc' = "raised"
             /\ e_error' = IF e_dir THEN "txt_open" ELSE "txt_no_directory"
          \/ /\ e_dir
             /\ fs' = [fs EXCEPT !["out.txt"] = [exists |-> TRUE, data |-> <<>>]]
             /\ trace' = Append(trace, Event("txt_write", 0, <<>>))
             /\ e_pc' = "raised"
             /\ e_error' = "txt_write"
  /\ UNCHANGED <<e_text, e_format, e_dir, buf, synced, txt_content, csv_data, e_struct>>
  /\ UNCHANGED <<ocr_vars, struct_vars, clean_vars>>

\* convert_to_format line 43, _write_raw_txt: make the directory, write the
\* raw text next to the CSV.
WriteRawTxt ==
  /\ e_pc = "csv_raw_txt"
  /\ e_dir' = TRUE
  /\ \/ /\ fs' = [fs EXCEPT ![TxtPath] = [exists |-> TRUE, data |-> e_text]]
        /\ trace' = Append(trace, Event("raw_txt_write", 0, e_text))
        /\ e_pc' = "csv_read_txt"
        /\ e_error' = e_error
     \/ /\ fs' = fs
        /\ trace' = Append(trace, Event("raw_txt_write", 0, <<>>))
        /\ e_pc' = "raised"
        /\ e_error' = "raw_txt_write"
  /\ UNCHANGED <<e_text, e_format, buf, synced, txt_content, csv_data, e_struct>>
  /\ UNCHANGED <<ocr_vars, struct_vars, clean_vars>>

\* convert_to_format lines 44-45: read the raw TXT back.
ReadRawTxt ==
  /\ e_pc = "csv_read_txt"
  /\ txt_content' = ReadTextMode(fs[TxtPath].data)
  /\ e_pc' = "csv_build"
  /\ UNCHANGED <<e_text, e_format, e_dir, fs, buf, synced, trace, e_error,
                 csv_data, e_struct>>
  /\ UNCHANGED <<ocr_vars, struct_vars, clean_vars>>

\* _convert_to_csv_sync lines 199-210: make the directory, build the rows.
BuildRows ==
  /\ e_pc = "csv_build"
  /\ e_dir' = TRUE
  /\ csv_data' = CsvRows(txt_content)
  /\ e_pc' = "csv_primary_write"
  /\ UNCHANGED <<e_text, e_format, fs, buf, synced, trace, e_error, txt_content,
                 e_struct>>
  /\ UNCHANGED <<ocr_vars, struct_vars, clean_vars>>

\* exception propagation: the except clauses of lines 250-254 and 55-59 re-raise
Raised(step) ==
  /\ e_pc' = "raised"
  /\ e_error' = step

\* lines 213-220: open output_path for writing (this creates or truncates it)
\* and hand the rows to csv.writer; the bytes wait in the file object.
PrimaryWrite ==
  /\ e_pc = "csv_primary_write"
  /\ \/ /\ fs' = [fs EXCEPT !["out.csv"] = [exists |-> TRUE, data |-> <<>>]]
        /\ buf' = BOM \o WriterRows(csv_data)
        /\ trace' = Append(trace, Event("primary_write", 0, BOM \o WriterRows(csv_data)))
        /\ e_pc' = "csv_primary_flush"
        /\ e_error' = e_error
     \/ /\ fs' = fs
        /\ buf' = buf
        /\ trace' = Append(trace, Event("primary_write", 0, <<>>))
        /\ Raised("primary_write")
  /\ UNCHANGED <<e_text, e_format, e_dir, synced, txt_content, csv_data, e_struct>>
  /\ UNCHANGED <<ocr_vars, struct_vars, clean_vars>>

\* line 221, f.flush(): the buffered bytes reach the file, or the writer
\* silently leaves the file empty (the case line 225 looks for), or it raises.
PrimaryFlush ==
  /\ e_pc = "csv_primary_flush"
  /\ trace' = Append(trace, Event("flush", 0, <<>>))
  /\ buf' = <<>>
  /\ \/ /\ fs' = [fs EXCEPT !["out.csv"].data = buf]
        /\ e_pc' = "csv_primary_fsync"
        /\ e_error' = e_error
     \/ /\ fs' = fs
        /\ e_pc' = "csv_primary_fsync"
        /\ e_error' = e_error
     \/ /\ fs' = fs
        /\ Raised("primary_flush")
  /\ UNCHANGED <<e_text, e_format, e_dir, synced, txt_content, csv_data, e_struct>>
  /\ UNCHANGED <<ocr_vars, struct_vars, clean_vars>>

\* line 222, os.fsync(f.fileno()), then the with block closes the file
PrimaryFsync ==
  /\ e_pc = "csv_primary_fsync"
  /\ trace' = Append(trace, Event("fsync", 0, <<>>))
  /\ \/ /\ synced' = synced \cup {"out.csv"}
        /\ e_pc' = "csv_size_check"
        /\ e_error' = e_error
     \/ /\ synced' = synced
        /\ Raised("primary_fsync")
  /\ UNCHANGED <<e_text, e_format, e_dir, fs, buf, txt_content, csv_data, e_struct>>
  /\ UNCHANGED <<ocr_vars, struct_vars, clean_vars>>

\* line 225: look at the size of what was written
SizeCheck ==
  /\ e_pc = "csv_size_check"
  /\ trace' = Append(trace, Event("size_check", Len(fs["out.csv"].data), <<>>))
  /\ e_pc' = IF NeedsRewrite(fs["out.csv"]) THEN "csv_rewrite_write" ELSE "csv_verify"
  /\ UNCHANGED <<e_text, e_format, e_dir, fs, buf, synced, e_error, txt_content,
                 csv_data, e_struct>>
  /\ UNCHANGED <<ocr_vars, struct_vars, clean_vars>>

\* lines 226-232: build csv_string with the quotes doubled by hand, open
\* output_path again and write the string
RewriteWrite ==
  /\ e_pc = "csv_rewrite_write"
  /\ \/ /\ fs' = [fs EXCEPT !["out.csv"] = [exists |-> TRUE, data |-> <<>>]]
        /\ synced' = synced \ {"out.csv"}
        /\ buf' = BOM \o CsvString(csv_data)
        /\ trace' = Append(trace, Event("rewrite_write", 0, BOM \o CsvString(csv_data)))
        /\ e_pc' = "csv_rewrite_flush"
        /\ e_error' = e_error
     \/ /\ fs' = fs
        /\ synced' = synced
        /\ buf' = buf
        /\ trace' = Append(trace, Event("rewrite_write", 0, <<>>))
        /\ Raised("rewrite_write")
  /\ UNCHANGED <<e_text, e_format, e_dir, txt_content, csv_data, e_struct>>
  /\ UNCHANGED <<ocr_vars, struct_vars, clean_vars>>

\* line 233, f.flush() of the rewrite: the same three outcomes
RewriteFlush ==
  /\ e_pc = "csv_rewrite_flush"
  /\ trace' = Append(trace, Event("rewrite_flush", 0, <<>>))
  /\ buf' = <<>>
  /\ \/ /\ fs' = [fs EXCEPT !["out.csv"].data = buf]
        /\ e_pc' = "csv_rewrite_fsync"
        /\ e_error' = e_error
     \/ /\ fs' = fs
        /\ e_pc' = "csv_rewrite_fsync"
        /\ e_error' = e_error
     \/ /\ fs' = fs
        /\ Raised("rewrite_flush")
  /\ UNCHANGED <<e_text, e_format, e_dir, synced, txt_content, csv_data, e_struct>>
  /\ UNCHANGED <<ocr_vars, struct_vars, clean_vars>>

\* line 234, os.fsync(f.fileno()) of the rewrite
RewriteFsync ==
  /\ e_pc = "csv_rewrite_fsync"
  /\ trace' = Append(trace, Event("rewrite_fsync", 0, <<>>))
  /\ \/ /\ synced' = synced \cup {"out.csv"}
        /\ e_pc' = "csv_verify"
        /\ e_error' = e_error
     \/ /\ synced' = synced
        /\ Raised("rewrite_fsync")
  /\ UNCHANGED <<e_text, e_format, e_dir, fs, buf, txt_content, csv_data, e_struct>>
  /\ UNCHANGED <<ocr_vars, struct_vars, clean_vars>>

\* lines 236-248: log the size and the first line, or log that the file was
\* not created; either way the function returns normally.
Verify ==
  /\ e_pc = "csv_verify"
  /\ trace' = Append(trace, Event("verify", Len(fs["out.csv"].data), <<>>))
  /\ e_pc' = "returned"
  /\ UNCHANGED <<e_text, e_format, e_dir, fs, buf, synced, e_error, txt_content,
                 csv_data, e_struct>>
  /\ UNCHANGED <<ocr_vars, struct_vars, clean_vars>>

EncNext ==
  \/ Dispatch
  \/ JsonEncode
  \/ TxtEncode
  \/ WriteRawTxt
  \/ ReadRawTxt
  \/ BuildRows
  \/ PrimaryWrite
  \/ PrimaryFlush
  \/ PrimaryFsync
  \/ SizeCheck
  \/ RewriteWrite
  \/ RewriteFlush
  \/ RewriteFsync
  \/ Verify

SpecEnc == EncInit /\ [][EncNext]_vars

\* ------------------------------------------------------------------------
\* main.py: upload_file through to the stored JSON document
\* ------------------------------------------------------------------------
\* main.py lines 88-126 for output_format = 'json': convert_to_format ->
\* _convert_to_json structures the extracted text (a fault inside the
\* Structurer gives the degenerate structure), opens the file under
\* OUTPUT_DIR (which main.py line 26 created) and writes the document; a
\* failure to open or to write becomes HTTP 500 (lines 130-132).
UploadConvertJson ==
  /\ ocr_pc = "convert"
  /\ caller = "upload_file"
  /\ \E f \in FaultPoints :
       LET sd == _parse_text_to_structured_data(ocr_result, f)
       IN /\ s_fault' = f
          /\ e_struct' = sd
          /\ \/ /\ fs' = [fs EXCEPT !["out.json"] =
                            [exists |-> TRUE, data |-> JsonDocument(ocr_result, sd)]]
                /\ e_pc' = "returned"
                /\ e_error' = e_error
                /\ http' = "200"
             \/ /\ fs' = fs
                /\ e_pc' = "raised"
                /\ e_error' = "json_open"
                /\ http' = "500"
             \/ /\ fs' = [fs EXCEPT !["out.json"] = [exists |-> TRUE, data |-> <<>>]]
                /\ e_pc' = "raised"
                /\ e_error' = "json_write"
                /\ http' = "500"
  /\ e_text' = ocr_result
  /\ e_format' = "json"
  /\ ocr_pc' = "responded"
  /\ UNCHANGED <<caller, file_ext, raw_pages, images, idx, extracted_texts,
                 executor, ocr_result, ocr_error>>
  /\ UNCHANGED <<s_text, s_pc, structured, s_fault2, structured2>>
  /\ UNCHANGED <<e_dir, buf, synced, trace, txt_content, csv_data>>
  /\ UNCHANGED clean_vars

UploadNext == OcrNext \/ UploadConvertJson

MaxUploadPages == 2

\* What recognition may see on a page of an uploaded document: nothing,
\* only whitespace, a word, or two lines of text with blank lines between.
UploadRawTexts ==
  {<<>>, <<" ", "\n">>, <<"a">>, <<"a", " ", "\n", "\n", " ", "a", "\n">>}

\* A request that comes in through upload_file.
UploadInit ==
  /\ caller = "upload_file"
  /\ file_ext \in Extensions
  /\ raw_pages \in SeqsUpTo(UploadRawTexts, MaxUploadPages)
  /\ (file_ext # ".pdf" => Len(raw_pages) = 1)
  /\ ocr_pc = "upload"
  /\ images = <<>>
  /\ idx = 0
  /\ extracted_texts = <<>>
  /\ executor = IdleExecutor
  /\ ocr_result = <<>>
  /\ ocr_error = "none"
  /\ http = "none"
  /\ StructIdle
  /\ EncIdle
  /\ CleanIdle

SpecUpload == UploadInit /\ [][UploadNext]_vars

\* ------------------------------------------------------------------------
\* Reading the artifacts back: a CSV reader (excel dialect) and a JSON parser
\* ------------------------------------------------------------------------
\* st: "start" of a field, "quoted", "closed" (after the closing quote) or
\* "bare" (an unquoted field)
RECURSIVE CsvReadFrom(_, _, _, _, _)
CsvReadFrom(s, i, row, field, st) ==
  IF i > Len(s)
  THEN (IF st = "start" /\ row = <<>> THEN <<>> ELSE <<Append(row, field)>>)
  ELSE IF st = "quoted"
  THEN (IF s[i] = "\"" /\ i < Len(s) /\ s[i + 1] = "\""
        THEN CsvReadFrom(s, i + 2, row, Append(field, "\""), "quoted")
        ELSE IF s[i] = "\"" THEN CsvReadFrom(s, i + 1, row, field, "closed")
        ELSE CsvReadFrom(s, i + 1, row, Append(field, s[i]), "quoted"))
  ELSE IF st = "start" /\ s[i] = "\"" THEN CsvReadFrom(s, i + 1, row, <<>>, "quoted")
  ELSE IF s[i] = "," THEN CsvReadFrom(s, i + 1, Append(row, field), <<>>, "start")
  ELSE IF StartsAt(s, CRLF, i)
  THEN <<Append(row, field)>> \o CsvReadFrom(s, i + 2, <<>>, <<>>, "start")
  ELSE IF s[i] \in {"\n", "\r"}
  THEN <<Append(row, field)>> \o CsvReadFrom(s, i + 1, <<>>, <<>>, "start")
  ELSE CsvReadFrom(s, i + 1, row, Append(field, s[i]), "bare")

\* the rows a spreadsheet reads from the file: the byte-order mark is dropped
CsvRead(data) ==
  IF StartsAt(data, BOM, 1) THEN CsvReadFrom(data, 2, <<>>, <<>>, "start")
  ELSE CsvReadFrom(data, 1, <<>>, <<>>, "start")

RECURSIVE JsonSkipWs(_, _)
JsonSkipWs(s, i) ==
  IF i <= Len(s) /\ s[i] \in Whitespace THEN JsonSkipWs(s, i + 1) ELSE i

JsonUnescape(c) ==
  CASE c = "n" -> "\n"
    [] c = "r" -> "\r"
    [] c = "t" -> "\t"
    [] OTHER -> c

\* the string whose opening quote is at i - 1: its value and the position
\* after its closing quote
RECURSIVE JsonReadStringBody(_, _, _)
JsonReadStringBody(s, i, acc) ==
  IF s[i] = "\"" THEN [v |-> acc, i |-> i + 1]
  ELSE IF s[i] = "\\"
       THEN JsonReadStringBody(s, i + 2, Append(acc, JsonUnescape(s[i + 1])))
       ELSE JsonReadStringBody(s, i + 1, Append(acc, s[i]))

JsonReadString(s, i) == JsonReadStringBody(s, i + 1, <<>>)

JsonReadInt(s, i) ==
  [v |-> StrToInt(SubSeq(s, i, DigitsEnd(s, i) - 1)), i |-> DigitsEnd(s, i)]

\* the items of the list whose "[" has been read
RECURSIVE JsonReadItems(_, _, _)
JsonReadItems(s, i, acc) ==
  LET j == JsonSkipWs(s, i)
  IN IF s[j] = "]" THEN [v |-> acc, i |-> j + 1]
     ELSE IF s[j] = "," THEN JsonReadItems(s, j + 1, acc)
     ELSE LET item == JsonReadString(s, j)
          IN JsonReadItems(s, item.i, Append(acc, item.v))

\* A value of the given kind: "int", "str", "list", or, for an object, the
\* sequence of the kinds of its members.  An object is read as
\* [keys |-> ..., vals |-> ...].
RECURSIVE JsonReadValue(_, _, _)
RECURSIVE JsonReadMembers(_, _, _, _, _)
JsonReadMembers(s, i, kinds, keys, vals) ==
  LET j == JsonSkipWs(s, i)
  IN IF s[j] = "}" THEN [v |-> [keys |-> keys, vals |-> vals], i |-> j + 1]
     ELSE IF s[j] = "," THEN JsonReadMembers(s, j + 1, kinds, keys, vals)
     ELSE LET key == JsonReadString(s, j)
              colon == JsonSkipWs(s, key.i)
              val == JsonReadValue(s, JsonSkipWs(s, colon + 1), kinds[Len(keys) + 1])
          IN JsonReadMembers(s, val.i, kinds, Append(keys, key.v), Append(vals, val.v))

JsonReadValue(s, i, kind) ==
  IF kind = "int" THEN JsonReadInt(s, i)
  ELSE IF kind = "str" THEN JsonReadString(s, i)
  ELSE IF kind = "list" THEN JsonReadItems(s, i + 1, <<>>)
  ELSE JsonReadMembers(s, i + 1, kind, <<>>, <<>>)

\* the shape of the document of lines 70-87
DocumentKinds ==
  << <<"int", "int", "int", "int">>, <<"str", "list", "list", "list">>,
     <<"str", "str">> >>

JsonParse(data) == JsonReadValue(data, JsonSkipWs(data, 1), DocumentKinds).v

\* object[key]
JsonGet(object, key) ==
  object.vals[CHOOSE k \in 1..Len(object.keys) : object.keys[k] = key]

\* ------------------------------------------------------------------------
\* Properties of the encoders
\* ------------------------------------------------------------------------
CsvReturned == e_format = "csv" /\ e_pc = "returned"

EventsOf(op) == {k \in 1..Len(trace) : trace[k].op = op}

IsPrefix(a, b) == Len(a) <= Len(b) /\ SubSeq(b, 1, Len(a)) = a

\* C3 as stated: whenever the CSV encoder returns without raising, a file
\* exists at output_path and its size is non-zero (so an encoder left without
\* such a file after the primary write and the rewrite must have raised).
C3_ReturnImpliesArtifact ==
  CsvReturned => fs["out.csv"].exists /\ Len(fs["out.csv"].data) > 0

OpsWithoutRewrite ==
  <<"raw_txt_write", "primary_write", "flush", "fsync", "size_check", "verify">>

OpsWithRewrite ==
  <<"raw_txt_write", "primary_write", "flush", "fsync", "size_check",
    "rewrite_write", "rewrite_flush", "rewrite_fsync", "verify">>

\* C4: the CSV encoder's file operations come in the order primary write,
\* flush, fsync, size check; once the size check is behind it, the rewrite has
\* been started if and only if the size check saw a zero-size file; the rewrite
\* hands the file the same rows as the primary write did; and a request that
\* returns after a rewrite has flushed and fsynced that rewrite first.
C4_WriteSyncCheckRewrite ==
  e_format = "csv" =>
    /\ \/ IsPrefix(Ops(trace), OpsWithoutRewrite)
       \/ IsPrefix(Ops(trace), OpsWithRewrite)
    /\ \A k \in EventsOf("size_check") :
         (e_pc \in {"returned", "raised"} \/ Len(trace) > k) =>
           (EventsOf("rewrite_write") # {} <=> trace[k].size = 0)
    /\ \A k \in EventsOf("rewrite_write") : \A j \in EventsOf("primary_write") :
         trace[k].bytes # <<>> =>
           /\ CsvRead(trace[k].bytes) = CsvRead(trace[j].bytes)
           /\ CsvRead(trace[k].bytes) = csv_data
    /\ (e_pc = "returned" /\ EventsOf("rewrite_write") # {}) =>
         /\ Ops(trace) = OpsWithRewrite
         /\ "out.csv" \in synced
    /\ (e_pc = "returned" /\ EventsOf("rewrite_write") = {}) =>
         /\ Ops(trace) = OpsWithoutRewrite
         /\ "out.csv" \in synced

\* A request whose primary write left an empty file and that returned after
\* the rewrite stored the rows.
C4_Witness ==
  /\ CsvReturned
  /\ Ops(trace) = OpsWithRewrite
  /\ Len(e_text) > 0
  /\ CsvRead(fs["out.csv"].data) = csv_data

PrimaryFaults == {"primary_write", "primary_flush", "primary_fsync"}

\* C5 as stated: a fault raised by the primary CSV write is followed by exactly
\* one attempt of the string-based rewrite before the request fails, while
\* the JSON and TXT encoders fail at once, their single write not retried.
C5_CsvRetriesOnceBeforeFailing ==
  /\ (e_format = "csv" /\ e_pc = "raised" /\ e_error \in PrimaryFaults) =>
       Cardinality(EventsOf("rewrite_write")) = 1
  /\ (e_format \in {"json", "txt"} /\ e_pc = "raised") => Len(trace) = 1

\* The lines of a text: every "\r\n", then every "\r", read as "\n", the text
\* cut at each "\n", and no empty line counted after the last line ending.
LinesOfText(text) ==
  LET pieces == Split(Replace(Replace(text, CRLF, LF), CR, LF), LF)
  IN IF pieces[Len(pieces)] = <<>> THEN SubSeq(pieces, 1, Len(pieces) - 1)
     ELSE pieces

ExpectedCsvRows(text) ==
  LET lines == LinesOfText(text)
  IN <<HeaderRow>>
     \o (IF Len(lines) = 0 THEN << <<IntToStr(1), text>> >>
         ELSE [k \in 1..Len(lines) |-> <<IntToStr(k), lines[k]>>])

\* C6: the CSV that convert_to_format(text, path, 'csv') stores reads back as
\* the header row followed by one row (i, line_i) per line of text, numbered
\* from 1 in line order, blank lines included, or by the single row (1, text)
\* when the text has no line; "a\nb\n\nc" gives (1,a) (2,b) (3,'') (4,c) and
\* the empty text gives (1,'').  (Stated of the requests whose bytes reached
\* the file; the lost write is the subject of C3.)
C6_CsvRows ==
  (CsvReturned /\ Len(fs["out.csv"].data) > 0) =>
    /\ CsvRead(fs["out.csv"].data) = ExpectedCsvRows(e_text)
    /\ (e_text = ExampleCsvText =>
          CsvRead(fs["out.csv"].data) =
            <<HeaderRow, << <<"1">>, <<"a">> >>, << <<"2">>, <<"b">> >>,
              << <<"3">>, <<>> >>, << <<"4">>, <<"c">> >> >>)
    /\ (e_text = <<>> =>
          CsvRead(fs["out.csv"].data) = <<HeaderRow, << <<"1">>, <<>> >> >>)

\* The documented example stored as a header and four rows.
C6_Witness ==
  /\ CsvReturned
  /\ e_text = ExampleCsvText
  /\ Len(CsvRead(fs["out.csv"].data)) = 5

\* C10: the stored JSON parses back to total_words = number of whitespace
\* delimited tokens of content.full_text = length of content.words, full_text =
\* the input text, and paragraphs, sentences and words = the lists the
\* Structurer returned.
C10_JsonRoundTrip ==
  (e_format = "json" /\ e_pc = "returned") =>
    LET doc == JsonParse(fs["out.json"].data)
        info == JsonGet(doc, K_document_info)
        content == JsonGet(doc, K_content)
    IN /\ JsonGet(info, K_total_words) = Len(SplitWs(JsonGet(content, K_full_text)))
       /\ JsonGet(info, K_total_words) = Len(JsonGet(content, K_words))
       /\ JsonGet(content, K_full_text) = e_text
       /\ JsonGet(content, K_paragraphs) = e_struct.paragraphs
       /\ JsonGet(content, K_sentences) = e_struct.sentences
       /\ JsonGet(content, K_words) = e_struct.words

\* A stored JSON document for a text of two words that holds a quote and a
\* line ending, both of which the encoder has to escape.
C10_Witness ==
  /\ e_format = "json" /\ e_pc = "returned"
  /\ Len(e_struct.words) = 2
  /\ \E k \in 1..Len(e_text) : e_text[k] = "\""
  /\ \E k \in 1..Len(e_text) : e_text[k] \in {"\n", "\r"}
  /\ fs["out.json"].exists

\* ---------------------------------------------------------------------------
\* TXT encoder: banners and verbatim content
\* ---------------------------------------------------------------------------

TxtReturned == e_format = "txt" /\ e_pc = "returned"

IsSuffix(p, s) ==
  Len(p) <= Len(s) /\ SubSeq(s, Len(s) - Len(p) + 1, Len(s)) = p

\* The characters of `data` between a leading part of length `lead` and a
\* trailing part of length `trail`.
Between(data, lead, trail) == SubSeq(data, lead + 1, Len(data) - trail)

\* C11: whenever a TXT encode has returned, the file at the output path begins
\* with the header banner, ends with the footer banner, and holds the input
\* text, unaltered and whole, between the statistics block (with the content
\* banner that closes it) and the footer.
C11_TxtBanners ==
  TxtReturned =>
    LET data == fs["out.txt"].data
        lead == TxtHeader \o TxtStatistics(e_text) \o TxtContentBanner
    IN /\ fs["out.txt"].exists
       /\ IsPrefix(TxtHeader, data)
       /\ IsSuffix(TxtFooter, data)
       /\ IsPrefix(lead, data)
       /\ Len(data) >= Len(lead) + Len(TxtFooter)
       /\ Between(data, Len(lead), Len(TxtFooter)) = e_text

\* ---------------------------------------------------------------------------
\* Encoders: the output directory
\* ---------------------------------------------------------------------------

EncoderFormats == {"json", "csv", "txt"}

EncoderFinished == e_format \in EncoderFormats /\ e_pc \in {"returned", "raised"}

\* C12: once an encoder (JSON, CSV or TXT) has run, the output directory
\* exists, and no encoder has failed for want of it.
C12_DirectoryCreated ==
  EncoderFinished =>
    e_dir /\ e_error \notin {"json_no_directory", "txt_no_directory"}

\* ---------------------------------------------------------------------------
\* _clean_text: trimmed non-blank lines, in order; idempotent
\* ---------------------------------------------------------------------------

NewlinePositions(s) == {i \in 1..Len(s) : s[i] = "\n"}

\* position of the k-th newline of s
NthNewline(s, k) ==
  CHOOSE i \in NewlinePositions(s) :
    Cardinality({j \in NewlinePositions(s) : j < i}) = k - 1

\* The lines of a result: the stretches between its newlines (none for "").
ResultLines(s) ==
  IF s = <<>> THEN <<>>
  ELSE LET n == Cardinality(NewlinePositions(s)) + 1
       IN [k \in 1..n |->
             SubSeq(s, IF k = 1 THEN 1 ELSE NthNewline(s, k - 1) + 1,
                       IF k = n THEN Len(s) ELSE NthNewline(s, k) - 1)]

\* L lists, in order, the lines of raw that are not blank, each without its
\* leading and trailing whitespace: every L[k] sits in raw at some place, has
\* no newline in it and no whitespace at its ends; everything of raw outside
\* the L[k] is whitespace; and a newline separates each L[k] from the next.
IsTrimmedLineList(raw, L) ==
  IF L = <<>> THEN AllWhitespace(raw, 1, Len(raw))
  ELSE \E st \in [1..Len(L) -> 1..Len(raw)] :
         /\ \A k \in 1..Len(L) :
              /\ Trimmed(L[k])
              /\ \A j \in 1..Len(L[k]) : L[k][j] # "\n"
              /\ StartsAt(raw, L[k], st[k])
              /\ LET lo == IF k = 1 THEN 1 ELSE st[k - 1] + Len(L[k - 1])
                     hi == st[k] - 1
                 IN /\ lo <= hi + 1
                    /\ AllWhitespace(raw, lo, hi)
                    /\ (k > 1 => \E j \in lo..hi : raw[j] = "\n")
         /\ AllWhitespace(raw, st[Len(L)] + Len(L[Len(L)]), Len(raw))

Cleaned == c_pc \in {"cleaned", "recleaned"}

\* C13: _clean_text returns the raw text's lines trimmed, the blank ones
\* dropped, in order, joined by single newlines: no two newlines are adjacent
\* in the result (so no blank line, no run of three); a raw text that is all
\* whitespace gives the empty string; and cleaning the result again leaves it
\* as it is.
C13_CleanText ==
  /\ Cleaned =>
       /\ IsTrimmedLineList(c_raw, ResultLines(c_once))
       /\ ~Contains(c_once, <<"\n", "\n">>)
       /\ (AllWhitespace(c_raw, 1, Len(c_raw)) => c_once = <<>>)
  /\ c_pc = "recleaned" => c_twice = c_once

C13_Witness ==
  /\ c_pc = "recleaned"
  /\ c_raw = <<" ", "a", "\n", "\n", "b">>
  /\ c_once = <<"a", "\n", "b">>
  /\ c_twice = <<"a", "\n", "b">>

\* ---------------------------------------------------------------------------
\* Encoders: the files one request leaves
\* ---------------------------------------------------------------------------

FilesPresent == {p \in Paths : fs[p].exists}

\* C14 (as stated): a request creates or modifies no file other than the one
\* at output_path.
C14_OnlyOutputPath ==
  e_format \in EncoderFormats => FilesPresent \subseteq {OutputPath(e_format)}

\* C14 (amended): a JSON or TXT request touches only the file at output_path;
\* a CSV request touches output_path and the raw TXT beside it, and a CSV
\* request that returned has left that TXT holding the input text.
C14_OutputAndRawTxt ==
  /\ e_format \in {"json", "txt"} => FilesPresent \subseteq {OutputPath(e_format)}
  /\ e_format = "csv" => FilesPresent \subseteq {"out.csv", "out.txt"}
  /\ e_format \notin EncoderFormats => FilesPresent = {}
  /\ CsvReturned => fs["out.txt"].exists /\ fs["out.txt"].data = e_text

C14_Witness ==
  /\ CsvReturned
  /\ FilesPresent = {"out.csv", "out.txt"}
  /\ Len(fs["out.csv"].data) > 0
  /\ e_text = <<"a", "\n", "a">>

\* ---------------------------------------------------------------------------
\* Encoders: failing closed
\* ---------------------------------------------------------------------------

\* What a request that met no fault leaves at output_path.
CompleteArtifact(format, data) ==
  CASE format = "txt" -> data = _format_text_for_txt(e_text, FALSE)
    [] format = "json" -> data = JsonDocument(e_text, e_struct)
    [] format = "csv" -> Len(data) > 0
    [] OTHER -> FALSE

\* C15: an encoder that returned success has left at output_path the complete,
\* formatted artifact; a request that met an internal fault has raised instead
\* (no success over a partial, empty or unformatted file).
C15_FailClosed ==
  e_pc = "returned" =>
    /\ fs[OutputPath(e_format)].exists
    /\ CompleteArtifact(e_format, fs[OutputPath(e_format)].data)

\* ---------------------------------------------------------------------------
\* Structurer: line endings
\* ---------------------------------------------------------------------------

\* The text with every line ending written as LF: each CRLF, then each CR
\* that is left, becomes one LF.
AllLF(text) == Replace(Replace(text, CRLF, LF), CR, LF)

\* C16: the paragraphs and sentences the Structurer returns for a text are
\* those of the same text with all its line endings written as LF.
C16_LineEndingsNormalized ==
  (StructureReturned /\ s_fault = "none") =>
    /\ structured.paragraphs = Paragraphs(AllLF(s_text))
    /\ structured.sentences = Sentences(Paragraphs(AllLF(s_text)))

\* ---------------------------------------------------------------------------
\* Page count of an extracted document
\* ---------------------------------------------------------------------------

\* number of places of the text where the literal '--- Page' stands
Occurrences(text) ==
  Cardinality({i \in 1..Len(text) : StartsAt(text, PageLiteral, i)})

ExpectedPageCount(text) ==
  IF Occurrences(text) = 0 THEN 1 ELSE Occurrences(text) + 1

\* the Structurer ran on the extracted text without an internal fault
StructuredExtracted == e_pc \in {"returned", "raised"} /\ s_fault = "none"

\* the member "total_pages": <int> as it stands in the stored document
TotalPagesKey == <<"\"">> \o K_total_pages \o <<"\"", ":", " ">>

\* the integer the stored document gives for total_pages (its first member
\* of that name, which is document_info's)
StoredTotalPages ==
  LET data == fs["out.json"].data
      at == CHOOSE i \in 1..Len(data) :
              /\ StartsAt(data, TotalPagesKey, i)
              /\ \A j \in 1..(i - 1) : ~StartsAt(data, TotalPagesKey, j)
  IN JsonReadInt(data, at + Len(TotalPagesKey)).v

\* C17: the page_count the Structurer derives from an extracted text is 1 when
\* the text holds no '--- Page', and the number of its occurrences plus 1
\* otherwise; for a PDF with k non-blank pages that is k + 1, and the stored
\* JSON document's total_pages is the same number.
C17_PageCount ==
  /\ StructuredExtracted =>
       /\ e_struct.page_count = ExpectedPageCount(e_text)
       /\ (file_ext = ".pdf" =>
             /\ Len(NonBlankIndices) >= 1
             /\ Occurrences(e_text) = Len(NonBlankIndices)
             /\ e_struct.page_count = Len(NonBlankIndices) + 1)
       /\ (file_ext # ".pdf" => e_struct.page_count = 1)
  /\ (StructuredExtracted /\ http = "200") =>
       StoredTotalPages = e_struct.page_count

\* A PDF of two non-blank pages, stored as JSON with total_pages 3.
C17_Witness ==
  /\ StructuredExtracted /\ http = "200"
  /\ file_ext = ".pdf"
  /\ NonBlankIndices = <<1, 2>>
  /\ e_struct.page_count = 3
  /\ StoredTotalPages = 3

====
